---- MODULE Spec2Model ----
(***************************************************************************)
(* A model of the websocket OpenAI proxy lambda (src/main.go).             *)
(*                                                                         *)
(* One process start (init/loadConfig) followed by one invocation of       *)
(* Handler.  Texts are sequences of Unicode code points.  The upstream     *)
(* completion service and the API Gateway push channel are the             *)
(* environment: every call to them is one step whose outcome is chosen     *)
(* from a small set, and every such call is appended to `calls`.           *)
(* A formatted message (fmt.Sprintf / fmt.Errorf) is the sequence of its   *)
(* parts: Lit(s) for a literal or an error string, Txt(t) for a text.      *)
(***************************************************************************)
EXTENDS Integers, Sequences, FiniteSets, TLC

\* ---------------------------------------------------------------- bounds
\* an upstream answer is built from at most MaxTokens tokens
MaxTokens == 4
\* a request carries at most MaxTurns chat turns
MaxTurns == 1
\* an upstream stream delivers at most MaxChunks chunks before it ends
MaxChunks == 3

\* ------------------------------------------------------------- constants
defaultModel == "gpt-3.5-turbo"
statusCodeOK == 200
statusCodeBadRequest == 400
statusCodeServerError == 500
connectRouteKey == "$connect"
disconnectRouteKey == "$disconnect"
\* "<END>"
endStreamMessage == <<60, 69, 78, 68, 62>>

\* ------------------------------------------------------------------ texts
Range(s) == {s[i] : i \in 1..Len(s)}

Lit(s) == [s |-> s, t |-> <<>>]
Txt(t) == [s |-> "", t |-> t]

\* no error
nil == <<>>

\* fmt.Errorf(prefix + "%v", err)
Errorf(prefix, err) == <<Lit(prefix)>> \o err

\* variant: the map without its entry for U+0384
getConfusablesNoTonos ==
    (8220 :> 34) @@ (8221 :> 34) @@ (8216 :> 39) @@ (8217 :> 39)

\* getConfusables: U+201C, U+201D -> '"'; U+2018, U+2019, U+0384 -> '\''
getConfusables ==
    (8220 :> 34) @@ (8221 :> 34) @@ (8216 :> 39) @@ (8217 :> 39) @@ (900 :> 39)

replaceConfusables(s) ==
    [i \in 1..Len(s) |->
        IF s[i] \in DOMAIN getConfusables THEN getConfusables[s[i]] ELSE s[i]]

\* ---------------------------------------------------------------- regexp
\* RE2 character classes: \d, \w and \s are ASCII-only
IsDigit(c) == c \in 48..57
IsWord(c) == c \in (48..57) \cup (65..90) \cup (97..122) \cup {95}
IsSpace(c) == c \in {9, 10, 12, 13, 32}
IsWordOrSpace(c) == IsWord(c) \/ IsSpace(c)

\* "[[" at position i of s, "]]" at position i of s
OpenAt(s, i) == i >= 1 /\ i + 1 <= Len(s) /\ s[i] = 91 /\ s[i + 1] = 91
CloseAt(s, i) == i >= 1 /\ i + 1 <= Len(s) /\ s[i] = 93 /\ s[i + 1] = 93

\* greedy repetition: the last position of the longest run of characters of
\* class digit ("d") or word-or-space ("ws") that starts at i (i-1: empty run)
RECURSIVE RunEnd(_, _, _)
RunEnd(s, i, class) ==
    IF i <= Len(s) /\ (IF class = "d" THEN IsDigit(s[i]) ELSE IsWordOrSpace(s[i]))
    THEN RunEnd(s, i + 1, class)
    ELSE i - 1

\* variant: \[\[(\d*)\]\], which also matches an empty digit run
IntMatchAtStar(s, i) ==
    IF ~OpenAt(s, i) THEN <<>>
    ELSE LET j == RunEnd(s, i + 2, "d")
         IN  IF CloseAt(s, j + 1)
             THEN <<SubSeq(s, i, j + 2), SubSeq(s, i + 2, j)>>
             ELSE <<>>

\* variant: \[\[(\d)\]\], a single digit between the brackets
IntMatchAtOneDigit(s, i) ==
    IF ~OpenAt(s, i) THEN <<>>
    ELSE IF i + 2 <= Len(s) /\ IsDigit(s[i + 2]) /\ CloseAt(s, i + 3)
         THEN <<SubSeq(s, i, i + 4), SubSeq(s, i + 2, i + 2)>>
         ELSE <<>>

\* \[\[(\d+)\]\] matched with its first character at position i:
\* <<whole match, group 1>>, or <<>> when it does not match there
IntMatchAt(s, i) ==
    IF ~OpenAt(s, i) THEN <<>>
    ELSE LET j == RunEnd(s, i + 2, "d")
         IN  IF j >= i + 2 /\ CloseAt(s, j + 1)
             THEN <<SubSeq(s, i, j + 2), SubSeq(s, i + 2, j)>>
             ELSE <<>>

\* variant: the group returned without the white space that ends it
StringMatchAtTrimmed(s, i) ==
    IF ~OpenAt(s, i) THEN <<>>
    ELSE LET j == RunEnd(s, i + 2, "ws")
         IN  IF j >= i + 2 /\ IsWord(s[i + 2]) /\ CloseAt(s, j + 1)
             THEN LET words == {k \in (i + 2)..j : IsWord(s[k])}
                      last == CHOOSE k \in words : \A m \in words : m <= k
                  IN  <<SubSeq(s, i, j + 2), SubSeq(s, i + 2, last),
                        SubSeq(s, i + 2, last)>>
             ELSE <<>>

\* variant: \[\[(\w+)\]\], one word and no white space
StringMatchAtNoSpace(s, i) ==
    IF ~OpenAt(s, i) THEN <<>>
    ELSE LET j == RunEnd(s, i + 2, "ws")
         IN  IF j >= i + 2 /\ CloseAt(s, j + 1)
                  /\ \A k \in (i + 2)..j : IsWord(s[k])
             THEN <<SubSeq(s, i, j + 2), SubSeq(s, i + 2, j), SubSeq(s, i + 2, j)>>
             ELSE <<>>

\* \[\[((\w+\s*)+)\]\] matched with its first character at position i:
\* <<whole match, group 1, group 2 (the last repetition)>>, or <<>>.
\* The group must start with a word character and "]" is in neither class,
\* so the only run that can be followed by "]]" is the longest one.
StringMatchAt(s, i) ==
    IF ~OpenAt(s, i) THEN <<>>
    ELSE LET j == RunEnd(s, i + 2, "ws")
         IN  IF j >= i + 2 /\ IsWord(s[i + 2]) /\ CloseAt(s, j + 1)
             THEN LET starts == {k \in (i + 2)..j :
                                    IsWord(s[k]) /\ (k = i + 2 \/ IsSpace(s[k - 1]))}
                      last == CHOOSE k \in starts : \A m \in starts : m <= k
                  IN  <<SubSeq(s, i, j + 2), SubSeq(s, i + 2, j), SubSeq(s, last, j)>>
             ELSE <<>>

MatchAt(re, s, i) == IF re = "int" THEN IntMatchAt(s, i) ELSE StringMatchAt(s, i)

\* variant: the rightmost match
RECURSIVE FindFromLast(_, _, _)
FindFromLast(re, s, i) ==
    IF i > Len(s) THEN <<>>
    ELSE IF FindFromLast(re, s, i + 1) # <<>> THEN FindFromLast(re, s, i + 1)
    ELSE MatchAt(re, s, i)

\* re.FindStringSubmatch(s): the leftmost match, nil (<<>>) when there is none
RECURSIVE FindFrom(_, _, _)
FindFrom(re, s, i) ==
    IF i > Len(s) THEN <<>>
    ELSE IF MatchAt(re, s, i) # <<>> THEN MatchAt(re, s, i)
    ELSE FindFrom(re, s, i + 1)

FindStringSubmatch(re, s) == FindFrom(re, s, 1)

\* ------------------------------------------------------- the environment
\* the process environment: the three configuration variables, and one
\* variable SYS that holds a system prompt; every other name is unset
EnvNames == {"OPENAI_API_KEY", "OPENAI_MODEL", "API_GW_ENDPOINT", "SYS"}
Environments ==
    {[n \in EnvNames |->
        CASE n = "OPENAI_API_KEY" -> k
          [] n = "OPENAI_MODEL" -> m
          [] n = "API_GW_ENDPOINT" -> e
          [] OTHER -> "You are a bot."] :
     k \in {"", "sk-test"}, m \in {"", "gpt-4"}, e \in {"", "https://gw.example"}}

\* what the caller can send
Roles == {"user", "system"}
Contents == {"Hi"}
ChatMessages == [Role : Roles, Content : Contents]
RECURSIVE SeqsUpTo(_, _)
SeqsUpTo(S, n) ==
    IF n = 0 THEN {<<>>}
    ELSE LET shorter == SeqsUpTo(S, n - 1)
         IN  shorter \cup {Append(q, x) : q \in shorter, x \in S}
PromptTemplates == {"SYS", "NOPE"}
ResponseTypes == {"int", "string", "full", "stream", "", "json"}
Requests ==
    [PromptTemplate : PromptTemplates,
     Messages : SeqsUpTo(ChatMessages, MaxTurns),
     ResponseType : ResponseTypes]
zeroRequest == [PromptTemplate |-> "", Messages |-> <<>>, ResponseType |-> ""]
\* a body is either the JSON encoding of a Request or not JSON at all
Bodies == {[json |-> FALSE, req |-> zeroRequest]} \cup [json : {TRUE}, req : Requests]
RouteKeys == {connectRouteKey, disconnectRouteKey, "$default"}
ConnectionIds == {"c1"}
Events == [RouteKey : RouteKeys, Body : Bodies, ConnectionID : ConnectionIds]

\* what the upstream service can answer
\* "[[", "]]", "07", "a", " ", U+201C
Tokens == {<<91, 91>>, <<93, 93>>, <<48, 55>>, <<97>>, <<32>>, <<8220>>}
RECURSIVE Concats(_)
Concats(n) ==
    IF n = 0 THEN {<<>>}
    ELSE LET shorter == Concats(n - 1)
         IN  shorter \cup {q \o t : q \in shorter, t \in Tokens}
Replies == Concats(MaxTokens)
\* a response of the completion call carries zero choices or one
zeroResponse == [Choices |-> <<>>]
Responses == {zeroResponse} \cup {[Choices |-> <<r>>] : r \in Replies}
\* "", "He", U+201C U+201D "a" U+2018 U+2019 U+0384 U+2032, "<END>"
Fragments ==
    {<<>>, <<72, 101>>, <<8220, 8221, 97, 8216, 8217, 900, 8242>>, endStreamMessage}
Chunks == {zeroResponse} \cup {[Choices |-> <<f>>] : f \in Fragments}
UpstreamErrors == {"status code: 429", "connection reset"}
PushErrors == {"GoneException"}
ListErrors == {"status code: 401"}
ModelLists == {<<"gpt-3.5-turbo">>, <<"gpt-3.5-turbo", "gpt-4">>}

\* ------------------------------------------------------------------ state
VARIABLES
    env,        \* the process environment (os.Getenv)
    config,     \* the global Config
    pc,         \* where the process is
    event,      \* the APIGatewayWebsocketProxyRequest handed to Handler
    openAIReq,  \* the openAIRequest built by handleRequest
    model,      \* the model resolved by getModel
    response,   \* the ChatCompletionResponse returned by initOpenAIRequest
    err,        \* the error returned by initOpenAIRequest / initOpenAIStream
    stream,     \* the stream handle: "nil", "open" or "closed"
    received,   \* the number of chunks the stream has delivered
    postData,   \* postInput.Data of getStreamOpenAIResponse
    calls,      \* every call made to the upstream service and the push channel
    resp,       \* the APIGatewayProxyResponse returned by Handler
    suspended   \* the invocations that are not running: what each one holds

vars == <<env, config, pc, event, openAIReq, model, response, err, stream,
          received, postData, calls, resp, suspended>>

Getenv(name) == IF name \in DOMAIN env THEN env[name] ELSE ""

\* a call of the upstream service or of the push channel: what was called,
\* with what, and the error it returned ("" when it succeeded)
Call(op, arg, e) == [op |-> op, arg |-> arg, err |-> e]

zeroConfig == [OpenAIKey |-> "", OpenAIModel |-> "", APIGatewayEndpoint |-> ""]
noEvent == [RouteKey |-> "", Body |-> [json |-> FALSE, req |-> zeroRequest],
            ConnectionID |-> ""]
noOpenAIReq == [request |-> zeroRequest, ConnectionId |-> ""]
noResponse == [StatusCode |-> 0, Body |-> <<>>]

Init ==
    /\ env \in Environments
    /\ config = zeroConfig
    /\ pc = "init"
    /\ event = noEvent
    /\ openAIReq = noOpenAIReq
    /\ model = ""
    /\ response = zeroResponse
    /\ err = nil
    /\ stream = "nil"
    /\ received = 0
    /\ postData = <<>>
    /\ calls = <<>>
    /\ resp = noResponse
    /\ suspended = <<>>

\* ---------------------------------------------------------- configuration
\* variant: an empty model name refused like an empty key
loadConfigStrict ==
    LET cfg == [OpenAIKey |-> Getenv("OPENAI_API_KEY"),
                OpenAIModel |-> Getenv("OPENAI_MODEL"),
                APIGatewayEndpoint |-> Getenv("API_GW_ENDPOINT")]
    IN  IF cfg.OpenAIKey = "" \/ cfg.OpenAIModel = ""
        THEN [cfg |-> cfg, err |-> <<Lit("configuration not found")>>]
        ELSE IF cfg.APIGatewayEndpoint = ""
        THEN [cfg |-> cfg,
              err |-> <<Lit("API Gateway Endpoint not found in environment variable API_GW_ENDPOINT")>>]
        ELSE [cfg |-> cfg, err |-> nil]

loadConfig ==
    LET cfg == [OpenAIKey |-> Getenv("OPENAI_API_KEY"),
                OpenAIModel |-> Getenv("OPENAI_MODEL"),
                APIGatewayEndpoint |-> Getenv("API_GW_ENDPOINT")]
    IN  IF cfg.OpenAIKey = ""
        THEN [cfg |-> cfg,
              err |-> <<Lit("OpenAI API key not found in environment variable OPENAI_API_KEY")>>]
        ELSE LET cfg2 == IF cfg.OpenAIModel = ""
                         THEN [cfg EXCEPT !.OpenAIModel = defaultModel]
                         ELSE cfg
             IN  IF cfg2.APIGatewayEndpoint = ""
                 THEN [cfg |-> cfg2,
                       err |-> <<Lit("API Gateway Endpoint not found in environment variable API_GW_ENDPOINT")>>]
                 ELSE [cfg |-> cfg2, err |-> nil]

\* func init(): the process exits when the configuration cannot be loaded
init ==
    /\ pc = "init"
    /\ config' = loadConfig.cfg
    /\ pc' = IF loadConfig.err # nil THEN "exit" ELSE "Handler"
    /\ UNCHANGED <<env, event, openAIReq, model, response, err, stream,
                   received, postData, calls, resp>>
    /\ UNCHANGED suspended

\* ------------------------------------------------------------ the handler
errorResponse(message, statusCode) == [StatusCode |-> statusCode, Body |-> message]

\* variant: a body that is not JSON taken for an empty request
parseRequestBodyLenient(body) ==
    IF body.json
    THEN [req |-> body.req, err |-> nil]
    ELSE [req |-> zeroRequest, err |-> nil]

parseRequestBody(body) ==
    IF body.json
    THEN [req |-> body.req, err |-> nil]
    ELSE [req |-> zeroRequest, err |-> <<Lit("invalid character")>>]

createOpenAIRequest(reqBody, connectionID) ==
    [request |-> reqBody, ConnectionId |-> connectionID]

\* variant: every event handled as a request, whatever its route key
HandlerAllRequests ==
    /\ pc = "Handler"
    /\ \E ev \in Events :
        /\ event' = ev
        /\ pc' = "handleRequest"
    /\ UNCHANGED <<env, config, openAIReq, model, response, err, stream,
                   received, postData, calls, resp>>
    /\ UNCHANGED suspended

\* Handler: an event arrives and is routed on its route key
Handler ==
    /\ pc = "Handler"
    /\ \E ev \in Events :
        /\ event' = ev
        /\ pc' = IF ev.RouteKey \in {connectRouteKey, disconnectRouteKey}
                 THEN "handleConnection"
                 ELSE "handleRequest"
    /\ UNCHANGED <<env, config, openAIReq, model, response, err, stream,
                   received, postData, calls, resp>>
    /\ UNCHANGED suspended

handleConnection ==
    /\ pc = "handleConnection"
    /\ resp' = [StatusCode |-> statusCodeOK, Body |-> <<>>]
    /\ pc' = "done"
    /\ UNCHANGED <<env, config, event, openAIReq, model, response, err, stream,
                   received, postData, calls>>
    /\ UNCHANGED suspended

\* variant: a switch whose default case falls back to the full response
handlerFuncDefaultFull(responseType) ==
    CASE responseType = "int" -> "getIntOpenAIResponse"
      [] responseType = "string" -> "getStringOpenAIResponse"
      [] responseType = "stream" -> "getStreamOpenAIResponse"
      [] OTHER -> "getFullOpenAIResponse"

\* the switch of handleRequest: the handler function a response type selects
handlerFunc(responseType) ==
    CASE responseType = "int" -> "getIntOpenAIResponse"
      [] responseType = "string" -> "getStringOpenAIResponse"
      [] responseType = "full" -> "getFullOpenAIResponse"
      [] responseType = "stream" -> "getStreamOpenAIResponse"
      [] OTHER -> "none"

\* handleRequest up to the call of the handler function
handleRequest ==
    /\ pc = "handleRequest"
    /\ LET parsed == parseRequestBody(event.Body)
       IN  IF parsed.err # nil
           THEN /\ resp' = errorResponse(
                            Errorf("Error parsing request JSON: ", parsed.err),
                            statusCodeBadRequest)
                /\ pc' = "done"
                /\ UNCHANGED openAIReq
           ELSE /\ openAIReq' = createOpenAIRequest(parsed.req, event.ConnectionID)
                /\ IF handlerFunc(parsed.req.ResponseType) = "none"
                   THEN /\ resp' = errorResponse(
                                    <<Lit("Incorrect response type: "),
                                      Lit(parsed.req.ResponseType)>>,
                                    statusCodeServerError)
                        /\ pc' = "done"
                   ELSE /\ pc' = "getModel"
                        /\ UNCHANGED resp
    /\ UNCHANGED <<env, config, event, model, response, err, stream,
                   received, postData, calls>>
    /\ UNCHANGED suspended

\* the end of handleRequest: the handler function has returned e
Returned(e) ==
    IF e # nil
    THEN errorResponse(Errorf("Error handling request: ", e), statusCodeServerError)
    ELSE [StatusCode |-> statusCodeOK, Body |-> <<>>]

\* --------------------------------------------------------- model and call
\* variant: the configured model taken as valid without looking at the list
isValidModelAny(models, id) == TRUE

isValidModel(models, id) == \E i \in 1..Len(models) : models[i] = id

\* getModel, called first by initOpenAIRequest and initOpenAIStream: the
\* model list is asked for unless the configured name is empty, and every
\* failure ends in the default model
getModel ==
    /\ pc = "getModel"
    /\ IF config.OpenAIModel = ""
       THEN /\ model' = defaultModel
            /\ UNCHANGED calls
       ELSE \/ \E e \in ListErrors :
               /\ calls' = Append(calls, Call("ListModels", <<>>, e))
               /\ model' = defaultModel
            \/ \E availableModels \in ModelLists :
               /\ calls' = Append(calls, Call("ListModels", availableModels, ""))
               /\ model' = IF ~isValidModel(availableModels, config.OpenAIModel)
                           THEN defaultModel
                           ELSE config.OpenAIModel
    /\ pc' = IF openAIReq.request.ResponseType = "stream"
             THEN "initOpenAIStream"
             ELSE "initOpenAIRequest"
    /\ UNCHANGED <<env, config, event, openAIReq, response, err, stream,
                   received, postData, resp>>
    /\ UNCHANGED suspended

\* variant: the turns appended last to first
chatCompletionMessagesReversed(promptTemplate, chatMessages) ==
    <<[Role |-> "system", Content |-> promptTemplate]>>
        \o [i \in 1..Len(chatMessages) |->
                [Role |-> chatMessages[Len(chatMessages) + 1 - i].Role,
                 Content |-> chatMessages[Len(chatMessages) + 1 - i].Content]]

\* the message sequence both init functions build
chatCompletionMessages(promptTemplate, chatMessages) ==
    <<[Role |-> "system", Content |-> promptTemplate]>>
        \o [i \in 1..Len(chatMessages) |->
                [Role |-> chatMessages[i].Role, Content |-> chatMessages[i].Content]]

promptNotFound(promptEnvVariable) ==
    <<Lit("Prompt not found in the environment variable "), Lit(promptEnvVariable)>>

\* initOpenAIRequest after getModel: the prompt is looked up and the
\* completion request is sent; the handler function continues with the result
initOpenAIRequest ==
    /\ pc = "initOpenAIRequest"
    /\ LET promptEnvVariable == openAIReq.request.PromptTemplate
           promptTemplate == Getenv(promptEnvVariable)
           request == [Model |-> model,
                       Messages |-> chatCompletionMessages(
                                        promptTemplate, openAIReq.request.Messages)]
       IN  IF promptTemplate = ""
           THEN /\ response' = zeroResponse
                /\ err' = promptNotFound(promptEnvVariable)
                /\ UNCHANGED calls
           ELSE \/ \E e \in UpstreamErrors :
                   /\ calls' = Append(calls, Call("CreateChatCompletion", request, e))
                   /\ response' = zeroResponse
                   /\ err' = Errorf("Error sending OpenAI API request: ", <<Lit(e)>>)
                \/ \E r \in Responses :
                   /\ calls' = Append(calls, Call("CreateChatCompletion", request, ""))
                   /\ response' = r
                   /\ err' = nil
    /\ pc' = handlerFunc(openAIReq.request.ResponseType)
    /\ UNCHANGED <<env, config, event, openAIReq, model, stream, received,
                   postData, resp>>
    /\ UNCHANGED suspended

\* initOpenAIStream after getModel: the same, opening a stream
initOpenAIStream ==
    /\ pc = "initOpenAIStream"
    /\ LET promptEnvVariable == openAIReq.request.PromptTemplate
           promptTemplate == Getenv(promptEnvVariable)
           request == [Model |-> model,
                       Messages |-> chatCompletionMessages(
                                        promptTemplate, openAIReq.request.Messages)]
       IN  IF promptTemplate = ""
           THEN /\ err' = promptNotFound(promptEnvVariable)
                /\ UNCHANGED <<calls, stream>>
           ELSE \/ \E e \in UpstreamErrors :
                   /\ calls' = Append(calls,
                                      Call("CreateChatCompletionStream", request, e))
                   /\ err' = Errorf("Error sending OpenAI API request: ", <<Lit(e)>>)
                   /\ UNCHANGED stream
                \/ /\ calls' = Append(calls,
                                      Call("CreateChatCompletionStream", request, ""))
                   /\ err' = nil
                   /\ stream' = "open"
    /\ pc' = "getStreamOpenAIResponse"
    /\ UNCHANGED <<env, config, event, openAIReq, model, response, received,
                   postData, resp>>
    /\ UNCHANGED suspended

\* -------------------------------------------------- the handler functions
\* PostToConnection(postInput), returning the error e
PostToConnection(connectionId, data, e) ==
    Call("PostToConnection", [ConnectionId |-> connectionId, Data |-> data], e)

cantPost(reply, e) ==
    <<Lit("Can't post response to websocket: "), Txt(reply), Lit("\nError: "), Lit(e)>>

\* variant: the content with its confusables replaced, as in stream mode
ContentConfused(r) == replaceConfusables(r.Choices[1])

\* response.Choices[0].Message.Content, of a response that has a choice
Content(r) == r.Choices[1]

\* getFullOpenAIResponse after initOpenAIRequest.  Choices[0] is read before
\* err is looked at: with no choice the index is out of range and the
\* goroutine panics.
getFullOpenAIResponse ==
    /\ pc = "getFullOpenAIResponse"
    /\ IF Len(response.Choices) = 0
       THEN /\ pc' = "panic"
            /\ UNCHANGED <<calls, resp>>
       ELSE LET reply == Content(response)
            IN  IF err # nil
                THEN /\ resp' = Returned(Errorf("Error sending OpenAI API request: ", err))
                     /\ pc' = "done"
                     /\ UNCHANGED calls
                ELSE \/ \E e \in PushErrors :
                        /\ calls' = Append(calls,
                                PostToConnection(openAIReq.ConnectionId, reply, e))
                        /\ resp' = Returned(cantPost(reply, e))
                        /\ pc' = "done"
                     \/ /\ calls' = Append(calls,
                                PostToConnection(openAIReq.ConnectionId, reply, ""))
                        /\ resp' = Returned(<<Lit("Can't get OpenAI API response: "),
                                              Txt(reply)>>)
                        /\ pc' = "done"
    /\ UNCHANGED <<env, config, event, openAIReq, model, response, err, stream,
                   received, postData>>
    /\ UNCHANGED suspended

\* variant: the whole match (matchInt[0]) taken for the group
SubmatchWhole(match) == match[1]

\* matchInt[1], matchString[1]: the first group of a match (Go counts from 0)
Submatch(match) == match[2]

\* the body getIntOpenAIResponse and getStringOpenAIResponse share, re being
\* the expression of the function
getExtractedOpenAIResponse(re) ==
    IF err # nil
    THEN /\ resp' = Returned(Errorf("Error sending OpenAI API request: ", err))
         /\ pc' = "done"
         /\ UNCHANGED calls
    ELSE IF Len(response.Choices) = 0
    THEN /\ pc' = "panic"
         /\ UNCHANGED <<calls, resp>>
    ELSE LET reply == Content(response)
             match == FindStringSubmatch(re, reply)
             cantParse == <<Lit("Can't parse OpenAI API response: "), Txt(reply)>>
         IN  IF Len(match) > 1
             THEN \/ \E e \in PushErrors :
                     /\ calls' = Append(calls,
                            PostToConnection(openAIReq.ConnectionId, Submatch(match), e))
                     /\ resp' = Returned(cantPost(reply, e))
                     /\ pc' = "done"
                  \/ /\ calls' = Append(calls,
                            PostToConnection(openAIReq.ConnectionId, Submatch(match), ""))
                     /\ resp' = Returned(cantParse)
                     /\ pc' = "done"
             ELSE /\ resp' = Returned(cantParse)
                  /\ pc' = "done"
                  /\ UNCHANGED calls

getIntOpenAIResponse ==
    /\ pc = "getIntOpenAIResponse"
    /\ getExtractedOpenAIResponse("int")
    /\ UNCHANGED <<env, config, event, openAIReq, model, response, err, stream,
                   received, postData>>
    /\ UNCHANGED suspended

getStringOpenAIResponse ==
    /\ pc = "getStringOpenAIResponse"
    /\ getExtractedOpenAIResponse("string")
    /\ UNCHANGED <<env, config, event, openAIReq, model, response, err, stream,
                   received, postData>>
    /\ UNCHANGED suspended

\* ------------------------------------------------------------- streaming
\* defer stream.Close(): runs when getStreamOpenAIResponse returns or panics
Close(cs) == Append(cs, Call("Close", <<>>, ""))

streamError(e) == Errorf("Error requesting OpenAI API stream: ", e)

\* getStreamOpenAIResponse after initOpenAIStream, up to the loop: an error
\* is returned, otherwise the close is deferred and postInput is built
getStreamOpenAIResponse ==
    /\ pc = "getStreamOpenAIResponse"
    /\ IF err # nil
       THEN /\ resp' = Returned(streamError(err))
            /\ pc' = "done"
            /\ UNCHANGED postData
       ELSE /\ postData' = <<>>
            /\ pc' = "Recv"
            /\ UNCHANGED resp
    /\ UNCHANGED <<env, config, event, openAIReq, model, response, err, stream,
                   received, calls>>
    /\ UNCHANGED suspended

\* variant: the end of the stream returned as success with no sentinel pushed
RecvEOFNoSentinel ==
    /\ calls' = Close(Append(calls, Call("Recv", zeroResponse, "EOF")))
    /\ stream' = "closed"
    /\ resp' = Returned(nil)
    /\ pc' = "done"
    /\ UNCHANGED <<postData, received>>

\* stream.Recv() returned io.EOF: the sentinel is made ready to be pushed
RecvEOF ==
    /\ calls' = Append(calls, Call("Recv", zeroResponse, "EOF"))
    /\ postData' = endStreamMessage
    /\ pc' = "PostEndStream"
    /\ UNCHANGED <<resp, stream, received>>

\* variant: every error of stream.Recv() taken for the end of the stream
RecvErrorAsEOF ==
    \E e \in UpstreamErrors :
        /\ calls' = Append(calls, Call("Recv", zeroResponse, e))
        /\ postData' = endStreamMessage
        /\ pc' = "PostEndStream"
        /\ UNCHANGED <<resp, stream, received>>

\* variant: after an error stream.Recv() is called again
RecvErrorRetried ==
    /\ received < MaxChunks
    /\ \E e \in UpstreamErrors :
        /\ calls' = Append(calls, Call("Recv", zeroResponse, e))
        /\ received' = received + 1
        /\ pc' = "Recv"
        /\ UNCHANGED <<postData, resp, stream>>

\* stream.Recv() returned another error: it is returned
RecvError ==
    \E e \in UpstreamErrors :
        /\ calls' = Close(Append(calls, Call("Recv", zeroResponse, e)))
        /\ stream' = "closed"
        /\ resp' = Returned(Errorf("Stream error: ", <<Lit(e)>>))
        /\ pc' = "done"
        /\ UNCHANGED <<postData, received>>

\* variant: the content of the chunk pushed as it arrived
deltaDataRaw(chunk) == chunk.Choices[1]

\* the bytes pushed for a chunk
deltaData(chunk) == replaceConfusables(chunk.Choices[1])

\* stream.Recv() returned a chunk: the content of its Choices[0] is made
\* ready to be pushed (a chunk with no choice panics)
RecvChunk ==
    /\ received < MaxChunks
    /\ \E chunk \in Chunks :
        /\ received' = received + 1
        /\ IF Len(chunk.Choices) = 0
           THEN /\ calls' = Close(Append(calls, Call("Recv", chunk, "")))
                /\ stream' = "closed"
                /\ pc' = "panic"
                /\ UNCHANGED <<postData, resp>>
           ELSE /\ calls' = Append(calls, Call("Recv", chunk, ""))
                /\ postData' = deltaData(chunk)
                /\ pc' = "PostDelta"
                /\ UNCHANGED <<resp, stream>>

\* one stream.Recv() of the loop and what follows it up to the next push
Recv ==
    /\ pc = "Recv"
    /\ (RecvEOF \/ RecvError \/ RecvChunk)
    /\ UNCHANGED <<env, config, event, openAIReq, model, response, err>>
    /\ UNCHANGED suspended

\* the push of the sentinel and the return that follows it
PostEndStream ==
    /\ pc = "PostEndStream"
    /\ \/ \E e \in PushErrors :
          /\ calls' = Close(Append(calls,
                        PostToConnection(openAIReq.ConnectionId, postData, e)))
          /\ resp' = Returned(streamError(<<Lit(e)>>))
       \/ /\ calls' = Close(Append(calls,
                        PostToConnection(openAIReq.ConnectionId, postData, "")))
          /\ resp' = Returned(nil)
    /\ stream' = "closed"
    /\ pc' = "done"
    /\ UNCHANGED <<env, config, event, openAIReq, model, response, err,
                   received, postData>>
    /\ UNCHANGED suspended

\* variant: the error of a fragment push dropped, the loop going on
PostDeltaFailedIgnored ==
    \E e \in PushErrors :
        /\ calls' = Append(calls,
                        PostToConnection(openAIReq.ConnectionId, postData, e))
        /\ pc' = "Recv"
        /\ UNCHANGED <<resp, stream>>

\* variant: the error of a fragment push returned with the stream left open
PostDeltaFailedNoClose ==
    \E e \in PushErrors :
        /\ calls' = Append(calls,
                        PostToConnection(openAIReq.ConnectionId, postData, e))
        /\ resp' = Returned(streamError(<<Lit(e)>>))
        /\ pc' = "done"
        /\ UNCHANGED stream

\* the push of a fragment failed: the error is returned
PostDeltaFailed ==
    \E e \in PushErrors :
        /\ calls' = Close(Append(calls,
                        PostToConnection(openAIReq.ConnectionId, postData, e)))
        /\ stream' = "closed"
        /\ resp' = Returned(streamError(<<Lit(e)>>))
        /\ pc' = "done"

\* the push of a fragment succeeded: the loop goes on
PostDeltaOK ==
    /\ calls' = Append(calls,
                    PostToConnection(openAIReq.ConnectionId, postData, ""))
    /\ pc' = "Recv"
    /\ UNCHANGED <<resp, stream>>

PostDelta ==
    /\ pc = "PostDelta"
    /\ (PostDeltaFailed \/ PostDeltaOK)
    /\ UNCHANGED <<env, config, event, openAIReq, model, response, err,
                   received, postData>>
    /\ UNCHANGED suspended

\* ---------------------------------------------------------- specification
Next ==
    \/ init
    \/ Handler
    \/ handleConnection
    \/ handleRequest
    \/ getModel
    \/ initOpenAIRequest
    \/ initOpenAIStream
    \/ getFullOpenAIResponse
    \/ getIntOpenAIResponse
    \/ getStringOpenAIResponse
    \/ getStreamOpenAIResponse
    \/ Recv
    \/ PostEndStream
    \/ PostDelta

Spec == Init /\ [][Next]_vars

\* ----------------------------------------------------------- observations
\* the response type of the call being handled
mode == openAIReq.request.ResponseType

\* the pushes made so far, and the receives and pushes made so far, in order
Pushes == SelectSeq(calls, LAMBDA c : c.op = "PostToConnection")
IO == SelectSeq(calls, LAMBDA c : c.op \in {"Recv", "PostToConnection"})

\* the call has ended: Handler returned a response, or the invocation panicked
Ended == pc \in {"done", "panic"}

\* the completion call was made and answered with a choice
Answered ==
    /\ \E i \in 1..Len(calls) : calls[i].op = "CreateChatCompletion" /\ calls[i].err = ""
    /\ Len(response.Choices) > 0

\* the character a stream fragment's character is to be pushed as
Plain(c) ==
    CASE c \in {8220, 8221} -> 34
      [] c \in {8216, 8217, 900} -> 39
      [] OTHER -> c
\* g is f with its confusable punctuation substituted
IsSubst(f, g) == Len(g) = Len(f) /\ \A i \in 1..Len(f) : g[i] = Plain(f[i])

\* a push of data d to the connection of the call, which succeeded
IsPushOf(c, d) ==
    /\ c.op = "PostToConnection"
    /\ c.err = ""
    /\ c.arg.ConnectionId = event.ConnectionID
    /\ c.arg.Data = d

\* io[2k-1], io[2k] are: a fragment received, that fragment pushed
IsRelayed(io, k) ==
    /\ io[2 * k - 1].op = "Recv"
    /\ io[2 * k - 1].err = ""
    /\ Len(io[2 * k - 1].arg.Choices) > 0
    /\ io[2 * k].op = "PostToConnection"
    /\ io[2 * k].err = ""
    /\ io[2 * k].arg.ConnectionId = event.ConnectionID
    /\ IsSubst(io[2 * k - 1].arg.Choices[1], io[2 * k].arg.Data)

\* d is text of the grammar of expression re: a run of digits, or words
\* each followed by white space
InGrammar(re, d) ==
    /\ d # <<>>
    /\ IF re = "int"
       THEN \A k \in 1..Len(d) : IsDigit(d[k])
       ELSE IsWord(d[1]) /\ \A k \in 1..Len(d) : IsWordOrSpace(d[k])

\* the texts s holds between a "[[" and a "]]" that are of the grammar of re
Occurrences(re, s) ==
    {SubSeq(s, ij[1] + 2, ij[2] - 1) :
        ij \in {ij \in {i \in 1..Len(s) : OpenAt(s, i)}
                          \X {j \in 1..Len(s) : CloseAt(s, j)} :
                    /\ ij[2] > ij[1] + 2
                    /\ InGrammar(re, SubSeq(s, ij[1] + 2, ij[2] - 1))}}

\* ----------------------------------------------------------------- claims
\* C1: in stream mode, when the upstream stream ends normally and every push
\* succeeds, the receives and pushes of the call are: fragment 1 received,
\* fragment 1 pushed with its confusables substituted, ..., fragment n
\* received, fragment n pushed, end of stream received, the sentinel pushed;
\* and the call reports success.
C1_StreamRelaysFragmentsInOrder ==
    (/\ pc = "done"
     /\ mode = "stream"
     /\ \E i \in 1..Len(calls) : calls[i].op = "Recv" /\ calls[i].err = "EOF"
     /\ \A i \in 1..Len(Pushes) : Pushes[i].err = "")
    => LET io == IO
           n == (Len(io) - 2) \div 2
       IN  /\ Len(io) = 2 * n + 2
           /\ \A k \in 1..n : IsRelayed(io, k)
           /\ io[2 * n + 1].op = "Recv" /\ io[2 * n + 1].err = "EOF"
           /\ IsPushOf(io[2 * n + 2], endStreamMessage)
           /\ resp.StatusCode = statusCodeOK

\* a stream of two fragments or more, one of them with confusables, relayed
C1_Witness ==
    /\ pc = "done"
    /\ mode = "stream"
    /\ resp.StatusCode = statusCodeOK
    /\ Len(Pushes) >= 3
    /\ \E k \in 1..2 : IO[2 * k].arg.Data # IO[2 * k - 1].arg.Choices[1]

\* C2: in the full, int and string modes a call whose single push succeeded
\* reports success (status 200).
C2_PushedMeansSuccess ==
    (/\ pc = "done"
     /\ mode \in {"full", "int", "string"}
     /\ Len(Pushes) = 1
     /\ Pushes[1].err = "")
    => resp.StatusCode = statusCodeOK

\* C3: in int and string mode, when the upstream answer holds a match of
\* the mode's grammar, the call makes exactly one push, of the text one
\* such occurrence holds between its delimiters, unchanged.
C3_ExtractedTextIsPushed ==
    (/\ pc = "done"
     /\ mode \in {"int", "string"}
     /\ Answered
     /\ Occurrences(mode, response.Choices[1]) # {})
    => /\ Len(Pushes) = 1
       /\ Pushes[1].arg.ConnectionId = event.ConnectionID
       /\ Pushes[1].arg.Data \in Occurrences(mode, response.Choices[1])

\* the digit run "07" pushed, leading zero kept, out of a longer answer
C3_Witness ==
    /\ pc = "done"
    /\ mode = "int"
    /\ Answered
    /\ Len(response.Choices[1]) > 6
    /\ Len(Pushes) = 1
    /\ Pushes[1].arg.Data = <<48, 55>>

\* C4: in full mode the call makes exactly one push, of the upstream answer
\* text unmodified.
C4_FullPushesAnswerUnmodified ==
    (/\ Ended
     /\ mode = "full"
     /\ Answered)
    => /\ Len(Pushes) = 1
       /\ Pushes[1].arg.ConnectionId = event.ConnectionID
       /\ Pushes[1].arg.Data = response.Choices[1]

\* an answer with a curly quote and a bracketed value pushed as it is
C4_Witness ==
    /\ pc = "done"
    /\ mode = "full"
    /\ Answered
    /\ Len(Pushes) = 1
    /\ 8220 \in Range(Pushes[1].arg.Data)
    /\ Occurrences("int", Pushes[1].arg.Data) # {}

\* C5: in int and string mode, when the upstream answer holds no match of
\* the mode's grammar, nothing is pushed and the call reports a failure.
C5_NoMatchPushesNothingAndFails ==
    (/\ Ended
     /\ mode \in {"int", "string"}
     /\ Answered
     /\ Occurrences(mode, response.Choices[1]) = {})
    => /\ pc = "done"
       /\ Pushes = <<>>
       /\ resp.StatusCode = statusCodeServerError

\* an answer with a bracketed word, asked for an integer
C5_Witness ==
    /\ pc = "done"
    /\ mode = "int"
    /\ Answered
    /\ Occurrences("string", response.Choices[1]) # {}
    /\ Occurrences("int", response.Choices[1]) = {}
    /\ resp.StatusCode = statusCodeServerError

\* C6: a request whose response_type is none of int, string, full and
\* stream is rejected with a failure status and no call is ever made for it:
\* no model listing, no completion request, no push.
C6_UnknownModeRejectedBeforeAnyCall ==
    (/\ event.RouteKey \notin {"", connectRouteKey, disconnectRouteKey}
     /\ event.Body.json
     /\ event.Body.req.ResponseType \notin {"int", "string", "full", "stream"})
    => /\ calls = <<>>
       /\ pc \in {"handleRequest", "done"}
       /\ pc = "done" => resp.StatusCode = statusCodeServerError

\* a request with an empty response_type, rejected
C6_Witness ==
    /\ pc = "done"
    /\ event.RouteKey = "$default"
    /\ event.Body.json
    /\ event.Body.req.ResponseType = ""
    /\ resp.StatusCode = statusCodeServerError

\* C7: in the full, int and string modes, when the completion call fails,
\* the call ends with status 500, its detail carries the upstream error
\* message, and nothing is pushed.
C7_UpstreamFailureIsReported ==
    \A i \in 1..Len(calls) :
        (/\ Ended
         /\ mode \in {"full", "int", "string"}
         /\ calls[i].op = "CreateChatCompletion"
         /\ calls[i].err # "")
        => /\ pc = "done"
           /\ resp.StatusCode = statusCodeServerError
           /\ Lit(calls[i].err) \in Range(resp.Body)
           /\ Pushes = <<>>

\* C8: in stream mode, when a receive fails after k fragments, the call
\* reports failure and its receives and pushes are exactly: the k fragments
\* each received and pushed, then the failed receive; the stream is closed
\* next and nothing else follows.
C8_StreamErrorIsTerminal ==
    (\E i \in 1..Len(calls) :
        calls[i].op = "Recv" /\ calls[i].err \notin {"", "EOF"})
    => LET io == IO
           k == (Len(io) - 1) \div 2
       IN  /\ pc = "done"
           /\ resp.StatusCode = statusCodeServerError
           /\ Len(io) = 2 * k + 1
           /\ \A m \in 1..k : IsRelayed(io, m)
           /\ io[2 * k + 1].op = "Recv"
           /\ io[2 * k + 1].err \in UpstreamErrors
           /\ calls[Len(calls) - 1] = io[2 * k + 1]
           /\ calls[Len(calls)].op = "Close"

\* a stream that failed after two fragments had been relayed
C8_Witness ==
    /\ pc = "done"
    /\ Len(IO) = 5
    /\ IO[5].op = "Recv"
    /\ IO[5].err \in UpstreamErrors
    /\ IO[4].arg.Data # endStreamMessage

\* C9: in every mode a failed push makes the call report a failure, and
\* nothing follows it but the release of the stream: no other push, no
\* receive, no sentinel.
C9_PushFailureIsTerminal ==
    \A i \in 1..Len(calls) :
        (calls[i].op = "PostToConnection" /\ calls[i].err # "")
        => /\ pc = "done"
           /\ resp.StatusCode = statusCodeServerError
           /\ \A j \in (i + 1)..Len(calls) : calls[j].op = "Close"

\* the push of the second fragment of a stream failed
C9_Witness ==
    /\ pc = "done"
    /\ mode = "stream"
    /\ Len(Pushes) = 2
    /\ Pushes[1].err = ""
    /\ Pushes[2].err # ""
    /\ Pushes[2].arg.Data # endStreamMessage

\* C10: once the stream is open it is released exactly once, as the last
\* call of the invocation, before the invocation ends on any path; it is
\* never released unopened and never used after its release.
C10_StreamReleasedOnEveryExit ==
    LET opened == \E i \in 1..Len(calls) :
                    calls[i].op = "CreateChatCompletionStream" /\ calls[i].err = ""
    IN  /\ \A i \in 1..Len(calls) :
            calls[i].op = "Close" => (opened /\ i = Len(calls) /\ Ended)
        /\ (opened /\ Ended) => (calls[Len(calls)].op = "Close" /\ stream = "closed")
        /\ (opened /\ ~Ended) => stream = "open"
        /\ ~opened => stream = "nil"

\* the stream released after the push of a fragment failed
C10_Witness ==
    /\ pc = "done"
    /\ stream = "closed"
    /\ Len(calls) >= 3
    /\ calls[Len(calls)].op = "Close"
    /\ calls[Len(calls) - 1].op = "PostToConnection"
    /\ calls[Len(calls) - 1].err # ""
    /\ calls[Len(calls) - 1].arg.Data # endStreamMessage

\* the completion requests sent upstream so far (sync or streaming)
IsCompletion(c) == c.op \in {"CreateChatCompletion", "CreateChatCompletionStream"}
Completions == SelectSeq(calls, IsCompletion)

\* the call is a chat call: its route is neither connect nor disconnect
ChatCall == event.RouteKey \notin {"", connectRouteKey, disconnectRouteKey}

\* the request was parsed and names one of the four modes
ValidMode == mode \in {"int", "string", "full", "stream"}

\* C11: a chat call that reports success (status 200) has pushed at least
\* one payload to the connection, and every push it made succeeded.
C11_SuccessMeansPayloadPushed ==
    (pc = "done" /\ ChatCall /\ resp.StatusCode = statusCodeOK)
    => /\ Len(Pushes) >= 1
       /\ \A i \in 1..Len(Pushes) : Pushes[i].err = ""

\* a stream with no fragment at all: the sentinel is the one payload
C11_Witness ==
    /\ pc = "done"
    /\ ChatCall
    /\ resp.StatusCode = statusCodeOK
    /\ mode = "stream"
    /\ Len(Pushes) = 1

\* C13: whatever roles the caller's turns carry, the messages sent upstream
\* hold exactly one entry of role system, the first one.
C13_ExactlyOneSystemMessage ==
    \A i \in 1..Len(calls) :
        IsCompletion(calls[i])
        => LET m == calls[i].arg.Messages
           IN  /\ Len(m) >= 1
               /\ m[1].Role = "system"
               /\ \A k \in 2..Len(m) : m[k].Role # "system"

\* C14: when the prompt template resolves to an empty text, the call fails
\* with a failure status in every valid mode, no completion request is sent
\* and nothing is pushed.
C14_EmptyPromptFails ==
    (/\ Ended
     /\ ValidMode
     /\ Getenv(openAIReq.request.PromptTemplate) = "")
    => /\ pc = "done"
       /\ resp.StatusCode = statusCodeServerError
       /\ Completions = <<>>
       /\ Pushes = <<>>

\* the model the configuration and the answer of the model listing call for
ExpectedModel ==
    IF /\ config.OpenAIModel # ""
       /\ \E i \in 1..Len(calls) :
            /\ calls[i].op = "ListModels"
            /\ calls[i].err = ""
            /\ config.OpenAIModel \in Range(calls[i].arg)
    THEN config.OpenAIModel
    ELSE defaultModel

\* C15: the model sent upstream is the configured name when that name is
\* not empty, the listing succeeded and the list holds it, and the default
\* model in every other case; whatever the listing answered, the completion
\* request is sent once the prompt is found.
C15_ModelResolvedOrDefaulted ==
    /\ \A i \in 1..Len(calls) :
        IsCompletion(calls[i]) => calls[i].arg.Model = ExpectedModel
    /\ (/\ ValidMode
        /\ pc \notin {"getModel", "initOpenAIRequest", "initOpenAIStream"}
        /\ Getenv(openAIReq.request.PromptTemplate) # "")
       => Len(Completions) = 1

\* gpt-4 configured, the listing failed: the request goes out for the default
C15_Witness ==
    /\ config.OpenAIModel = "gpt-4"
    /\ Len(calls) >= 2
    /\ calls[1].op = "ListModels"
    /\ calls[1].err # ""
    /\ IsCompletion(calls[2])
    /\ calls[2].arg.Model = defaultModel

\* C19: an event of route $connect or $disconnect is answered with status
\* 200 and nothing else happens: its body is not parsed, no call is made.
C19_ConnectionEventsOnlyAcknowledged ==
    (event.RouteKey \in {connectRouteKey, disconnectRouteKey})
    => /\ pc \in {"handleConnection", "done"}
       /\ calls = <<>>
       /\ openAIReq = noOpenAIReq
       /\ pc = "done" => resp = [StatusCode |-> statusCodeOK, Body |-> <<>>]

\* a $connect event whose body is a well-formed stream request
C19_Witness ==
    /\ pc = "done"
    /\ event.RouteKey = connectRouteKey
    /\ event.Body.json
    /\ event.Body.req.ResponseType = "stream"
    /\ event.Body.req.PromptTemplate = "SYS"
    /\ resp.StatusCode = statusCodeOK

\* C20: the process exits at start exactly when the key or the endpoint is
\* empty, and then handles no event; an empty model name does not make it
\* exit and is replaced by the default model.
C20_ConfigFailsOnlyWithoutKeyOrEndpoint ==
    (pc # "init")
    => /\ (pc = "exit") <=> (env["OPENAI_API_KEY"] = "" \/ env["API_GW_ENDPOINT"] = "")
       /\ pc = "exit" => (event = noEvent /\ calls = <<>> /\ resp = noResponse)
       /\ pc # "exit" =>
            config.OpenAIModel = (IF env["OPENAI_MODEL"] = ""
                                  THEN defaultModel
                                  ELSE env["OPENAI_MODEL"])

\* no model name in the environment: the process handles a call with the default
C20_Witness ==
    /\ pc = "done"
    /\ env["OPENAI_MODEL"] = ""
    /\ config.OpenAIModel = defaultModel
    /\ Len(Completions) = 1
    /\ Completions[1].arg.Model = defaultModel

\* ------------------------------------ the init functions on longer histories
\* getModel, initOpenAIRequest and initOpenAIStream as handleRequest calls
\* them: the configuration is loaded, the body is parsed, the response type
\* has a handler function, and the caller sent up to MaxCallTurns turns
MaxCallTurns == 2
CallRequests ==
    [PromptTemplate : PromptTemplates,
     Messages : SeqsUpTo(ChatMessages, MaxCallTurns),
     ResponseType : {t \in ResponseTypes : handlerFunc(t) # "none"}]
CallEvents ==
    [RouteKey : {"$default"}, Body : [json : {TRUE}, req : CallRequests],
     ConnectionID : ConnectionIds]

InitCall ==
    /\ env \in Environments
    /\ loadConfig.err = nil
    /\ config = loadConfig.cfg
    /\ pc = "getModel"
    /\ event \in CallEvents
    /\ openAIReq = createOpenAIRequest(parseRequestBody(event.Body).req,
                                       event.ConnectionID)
    /\ model = ""
    /\ response = zeroResponse
    /\ err = nil
    /\ stream = "nil"
    /\ received = 0
    /\ postData = <<>>
    /\ calls = <<>>
    /\ resp = noResponse
    /\ suspended = <<>>

NextCall ==
    \/ getModel
    \/ initOpenAIRequest
    \/ initOpenAIStream

SpecCall == InitCall /\ [][NextCall]_vars

\* C12: when the prompt template resolves to a non-empty text P and the
\* caller sent the turns t1..tn, the message sequence of the completion
\* request (sync or streaming) has n+1 entries, the first is
\* {role: system, content: P}, and entry i+1 has the role and the content of
\* ti; and once the init function has run, that request has been sent.
C12_MessagesArePromptThenTurns ==
    LET P == Getenv(event.Body.req.PromptTemplate)
        t == event.Body.req.Messages
    IN  /\ \A k \in 1..Len(Completions) :
              LET m == Completions[k].arg.Messages
              IN  /\ P # ""
                  /\ Len(m) = Len(t) + 1
                  /\ m[1] = [Role |-> "system", Content |-> P]
                  /\ \A i \in 1..Len(t) :
                        m[i + 1].Role = t[i].Role /\ m[i + 1].Content = t[i].Content
        /\ (P # "" /\ pc \notin {"getModel", "initOpenAIRequest", "initOpenAIStream"})
              => Len(Completions) = 1

\* a streaming request was sent for a caller who sent two different turns
C12_Witness ==
    /\ Len(Completions) = 1
    /\ Completions[1].op = "CreateChatCompletionStream"
    /\ Len(event.Body.req.Messages) = 2
    /\ event.Body.req.Messages[1] # event.Body.req.Messages[2]
    /\ Len(Completions[1].arg.Messages) = 3

\* --------------------------------- the extracting handlers on longer texts
\* getIntOpenAIResponse and getStringOpenAIResponse as handleRequest calls
\* them after a completion request that was answered with a choice of up to
\* MaxExtractTokens tokens
MaxExtractTokens == 6
\* "[[", "]]", "7", "9", "a b"
ExtractTokens == {<<91, 91>>, <<93, 93>>, <<55>>, <<57>>, <<97, 32, 98>>}
RECURSIVE ConcatsOf(_, _)
ConcatsOf(T, n) ==
    IF n = 0 THEN {<<>>}
    ELSE LET shorter == ConcatsOf(T, n - 1)
         IN  shorter \cup {q \o t : q \in shorter, t \in T}
ExtractReplies == ConcatsOf(ExtractTokens, MaxExtractTokens)
ExtractRequests ==
    {r \in Requests : /\ r.PromptTemplate = "SYS"
                      /\ r.Messages = <<>>
                      /\ r.ResponseType \in {"int", "string"}}
ExtractEvents ==
    [RouteKey : {"$default"}, Body : [json : {TRUE}, req : ExtractRequests],
     ConnectionID : ConnectionIds]

InitExtract ==
    /\ env \in Environments
    /\ loadConfig.err = nil
    /\ config = loadConfig.cfg
    /\ event \in ExtractEvents
    /\ openAIReq = createOpenAIRequest(parseRequestBody(event.Body).req,
                                       event.ConnectionID)
    /\ pc = handlerFunc(openAIReq.request.ResponseType)
    /\ model = defaultModel
    /\ response \in {[Choices |-> <<r>>] : r \in ExtractReplies}
    /\ err = nil
    /\ stream = "nil"
    /\ received = 0
    /\ postData = <<>>
    /\ \E e \in ListErrors :
          calls = <<Call("ListModels", <<>>, e),
                    Call("CreateChatCompletion",
                         [Model |-> model,
                          Messages |-> chatCompletionMessages(
                                           Getenv(openAIReq.request.PromptTemplate),
                                           openAIReq.request.Messages)],
                         "")>>
    /\ resp = noResponse
    /\ suspended = <<>>

NextExtract ==
    \/ getIntOpenAIResponse
    \/ getStringOpenAIResponse

SpecExtract == InitExtract /\ [][NextExtract]_vars

\* the text the completion request was answered with
Reply == response.Choices[1]

\* the handler function of an extracting mode has returned on an answer
Extracted ==
    /\ mode \in {"int", "string"}
    /\ pc = "done"
    /\ err = nil
    /\ Len(response.Choices) > 0

\* s holds, from position i to position j + 1, "[[" text "]]" with the text
\* of the grammar of re
IsOccurrence(re, s, i, j) ==
    /\ OpenAt(s, i)
    /\ CloseAt(s, j)
    /\ j > i + 2
    /\ InGrammar(re, SubSeq(s, i + 2, j - 1))

\* the text of the leftmost such occurrence of s, which has one
LeftmostOccurrence(re, s) ==
    LET starts == {i \in 1..Len(s) :
                      OpenAt(s, i) /\ \E j \in 1..Len(s) : IsOccurrence(re, s, i, j)}
        i0 == CHOOSE i \in starts : \A k \in starts : i <= k
        j0 == CHOOSE j \in 1..Len(s) : IsOccurrence(re, s, i0, j)
    IN  SubSeq(s, i0 + 2, j0 - 1)

\* s holds a "[[" and, after it, a "]]": a bracketed occurrence, whatever is
\* between the two
HasBracketed(s) ==
    \E i \in 1..Len(s) : OpenAt(s, i) /\ \E j \in 1..Len(s) : CloseAt(s, j) /\ j >= i + 2

\* the last position of the first bracketed occurrence of s: of the first
\* "]]" that follows the leftmost "[["
FirstBracketedEnd(s) ==
    LET opens == {i \in 1..Len(s) : OpenAt(s, i)}
        i1 == CHOOSE i \in opens : \A k \in opens : i <= k
        closes == {j \in 1..Len(s) : CloseAt(s, j) /\ j >= i1 + 2}
        j1 == CHOOSE j \in closes : \A k \in closes : j <= k
    IN  j1 + 1

\* the text of the first bracketed occurrence of s
FirstBracketed(s) ==
    LET opens == {i \in 1..Len(s) : OpenAt(s, i)}
        i1 == CHOOSE i \in opens : \A k \in opens : i <= k
    IN  SubSeq(s, i1 + 2, FirstBracketedEnd(s) - 2)

\* s holds two bracketed occurrences or more, one after the other, the
\* first one with text in it
TwoBracketed(s) ==
    /\ HasBracketed(s)
    /\ FirstBracketed(s) # <<>>
    /\ HasBracketed(SubSeq(s, FirstBracketedEnd(s) + 1, Len(s)))

\* C16 (as stated): in int and string mode, when the upstream text holds two
\* or more bracketed occurrences, the value pushed is taken from the first
\* one: it is text of the mode's grammar found between brackets no later
\* than the end of the first bracketed occurrence.
C16_OnlyFirstBracketedConsidered ==
    (Extracted /\ TwoBracketed(Reply))
        => \A k \in 1..Len(Pushes) :
              Pushes[k].arg.Data
                  \in Occurrences(mode, SubSeq(Reply, 1, FirstBracketedEnd(Reply)))

\* C16 (amended): in int and string mode the value pushed is the text of the
\* leftmost bracketed occurrence that is of the mode's grammar; bracketed
\* occurrences before it that are not of the grammar are passed over, and
\* no occurrence after it is ever pushed.
C16_LeftmostGrammarOccurrencePushed ==
    Extracted
        => IF Occurrences(mode, Reply) = {}
           THEN Pushes = <<>>
           ELSE /\ Len(Pushes) = 1
                /\ Pushes[1].arg.Data = LeftmostOccurrence(mode, Reply)

\* int mode pushed the digits of the second bracketed occurrence, the first
\* one holding no digits
C16_Witness ==
    /\ Extracted
    /\ mode = "int"
    /\ TwoBracketed(Reply)
    /\ Len(Pushes) = 1
    /\ Occurrences("int", SubSeq(Reply, 1, FirstBracketedEnd(Reply))) = {}
    /\ Pushes[1].arg.Data = LeftmostOccurrence("int", Reply)

\* C17: in int mode, when the upstream text holds [[d]] with d a non-empty
\* run of decimal digits, the handler pushes, once and to the caller's
\* connection, the digit run of the leftmost such occurrence, whatever
\* surrounds it.
C17_IntExtractsLeftmostDigitRun ==
    (Extracted /\ mode = "int" /\ Occurrences("int", Reply) # {})
        => /\ Len(Pushes) = 1
           /\ Pushes[1].arg.ConnectionId = event.ConnectionID
           /\ Pushes[1].arg.Data = LeftmostOccurrence("int", Reply)
           /\ \A k \in 1..Len(Pushes[1].arg.Data) : IsDigit(Pushes[1].arg.Data[k])

\* the text held two different digit runs in brackets, and the leftmost one
\* was pushed
C17_Witness ==
    /\ Extracted
    /\ mode = "int"
    /\ Cardinality(Occurrences("int", Reply)) = 2
    /\ Len(Pushes) = 1
    /\ Pushes[1].err = ""
    /\ Pushes[1].arg.Data = LeftmostOccurrence("int", Reply)

\* C18: in string mode, when the upstream text holds words in brackets, the
\* handler pushes the words of the leftmost such occurrence with the white
\* space between them; and in int and in string mode a text with no
\* bracketed occurrence at all is not matched: nothing is pushed and the
\* call fails with the text that could not be parsed.
C18_StringExtractsWordsAndNoBracketsFail ==
    /\ (Extracted /\ mode = "string" /\ Occurrences("string", Reply) # {})
          => /\ Len(Pushes) = 1
             /\ Pushes[1].arg.Data = LeftmostOccurrence("string", Reply)
    /\ (Extracted /\ ~HasBracketed(Reply))
          => /\ Pushes = <<>>
             /\ resp = Returned(<<Lit("Can't parse OpenAI API response: "),
                                   Txt(Reply)>>)

\* "a b" was pushed, taken from a text that holds more than "[[a b]]"
C18_Witness ==
    /\ Extracted
    /\ mode = "string"
    /\ Len(Reply) > 7
    /\ Len(Pushes) = 1
    /\ Pushes[1].err = ""
    /\ Pushes[1].arg.Data = <<97, 32, 98>>

\* ------------------------------------------------- the stream handler alone
\* getStreamOpenAIResponse as handleRequest calls it: initOpenAIStream has
\* opened the stream, or has failed to
StreamRequests ==
    {r \in Requests : /\ r.PromptTemplate = "SYS"
                      /\ r.Messages = <<>>
                      /\ r.ResponseType = "stream"}
StreamEvents ==
    [RouteKey : {"$default"}, Body : [json : {TRUE}, req : StreamRequests],
     ConnectionID : ConnectionIds]

InitStream ==
    /\ env \in Environments
    /\ loadConfig.err = nil
    /\ config = loadConfig.cfg
    /\ event \in StreamEvents
    /\ openAIReq = createOpenAIRequest(parseRequestBody(event.Body).req,
                                       event.ConnectionID)
    /\ pc = handlerFunc(openAIReq.request.ResponseType)
    /\ model = defaultModel
    /\ response = zeroResponse
    /\ received = 0
    /\ postData = <<>>
    /\ resp = noResponse
    /\ \E l \in ListErrors :
         LET request == [Model |-> model,
                         Messages |-> chatCompletionMessages(
                                          Getenv(openAIReq.request.PromptTemplate),
                                          openAIReq.request.Messages)]
         IN  \/ \E e \in UpstreamErrors :
                  /\ calls = <<Call("ListModels", <<>>, l),
                               Call("CreateChatCompletionStream", request, e)>>
                  /\ err = Errorf("Error sending OpenAI API request: ", <<Lit(e)>>)
                  /\ stream = "nil"
             \/ /\ calls = <<Call("ListModels", <<>>, l),
                              Call("CreateChatCompletionStream", request, "")>>
                /\ err = nil
                /\ stream = "open"
    /\ suspended = <<>>

NextStream ==
    \/ getStreamOpenAIResponse
    \/ Recv
    \/ PostEndStream
    \/ PostDelta

SpecStream == InitStream /\ [][NextStream]_vars

\* the handler is a running goroutine: a receive and a push that are under
\* way return, and the handler takes its next step
FairSpecStream == SpecStream /\ WF_vars(NextStream)

\* the five characters replaceConfusables substitutes
Confusables == {8220, 8221, 8216, 8217, 900}

\* C23: the text made ready to be pushed for a stream fragment has as many
\* characters as the fragment; at each position it holds '"' for a curly
\* double quote, "'" for a curly single quote or the tonos mark, and the
\* fragment's character otherwise; substituting it again changes nothing;
\* and it is the fragment itself when the fragment holds none of the five.
C23_ConfusablesSubstitutedInPlace ==
    pc = "PostDelta"
        => LET f == calls[Len(calls)].arg.Choices[1]
               g == postData
           IN  /\ Len(g) = Len(f)
               /\ \A i \in 1..Len(f) :
                     g[i] = CASE f[i] \in {8220, 8221} -> 34
                              [] f[i] \in {8216, 8217, 900} -> 39
                              [] OTHER -> f[i]
               /\ replaceConfusables(g) = g
               /\ (Range(f) \cap Confusables = {}) => g = f

\* a fragment that holds all five, and other characters, was substituted
C23_Witness ==
    /\ pc = "PostDelta"
    /\ Confusables \subseteq Range(calls[Len(calls)].arg.Choices[1])
    /\ Range(calls[Len(calls)].arg.Choices[1]) \ Confusables # {}
    /\ Range(postData) \cap Confusables = {}
    /\ postData # calls[Len(calls)].arg.Choices[1]

\* a call that failed: the end of the stream is not a failure
Failed(c) == c.err \notin {"", "EOF"}

\* C21: a chat call sends at most one completion request (the sync call or
\* the stream opening), and once a completion request, a receive or a push
\* has failed, the call makes no completion request, no receive and no push
\* any more: all that may follow is the release of the stream.  (The model
\* listing is not a completion request: its failure is answered by the
\* default model, not by a second listing.)
C21_NoRetryWithinACall ==
    /\ Len(Completions) <= 1
    /\ Len(SelectSeq(calls, LAMBDA c : c.op = "ListModels")) <= 1
    /\ \A i \in 1..Len(calls) :
          (/\ calls[i].op \in {"CreateChatCompletion", "CreateChatCompletionStream",
                               "Recv", "PostToConnection"}
           /\ Failed(calls[i]))
              => \A j \in (i + 1)..Len(calls) : calls[j].op = "Close"

\* a stream call ended on a failed push that followed a successful one
C21_Witness ==
    /\ pc = "done"
    /\ mode = "stream"
    /\ Len(Pushes) = 2
    /\ Pushes[1].err = ""
    /\ Failed(Pushes[2])
    /\ calls[Len(calls)].op = "Close"
    /\ resp.StatusCode = statusCodeServerError

\* the receive loop was entered and has been left
LoopExited ==
    /\ Ended
    /\ \E i \in 1..Len(calls) : calls[i].op = "Recv"

\* what the loop was left on, IO being the receives and pushes of the call
ExitOnEndOfStream ==
    /\ Len(IO) >= 2
    /\ IO[Len(IO) - 1].op = "Recv"
    /\ IO[Len(IO) - 1].err = "EOF"
    /\ IO[Len(IO)].op = "PostToConnection"
ExitOnStreamError == IO[Len(IO)].op = "Recv" /\ Failed(IO[Len(IO)])
ExitOnFailedPush == IO[Len(IO)].op = "PostToConnection" /\ Failed(IO[Len(IO)])

\* C22: under fair scheduling a stream call whose upstream delivers finitely
\* many chunks and then signals the end or an error eventually returns a
\* result, and the receive loop is left on the end of the stream, on a
\* stream error or on a failed push and on nothing else.
C22_StreamLoopEndsWithResult ==
    /\ <>(pc = "done")
    /\ [](LoopExited => (ExitOnEndOfStream \/ ExitOnStreamError \/ ExitOnFailedPush))

\* C27: a chat call that has ended has returned a response of status 200, 400
\* or 500 to the transport, and has left no stream open: no path, a reply or
\* a chunk with zero choices included, aborts the invocation.
C27_EveryChatCallReturnsAStatus ==
    (ChatCall /\ Ended)
        => /\ pc = "done"
           /\ resp.StatusCode \in {statusCodeOK, statusCodeBadRequest,
                                    statusCodeServerError}
           /\ stream # "open"

\* C26: a chat call whose body json.Unmarshal rejects is answered with status
\* 400 and the parse error; no openAIRequest (with its push client) is
\* built for it, and no upstream call and no push is made.
C26_UnparsableBodyIsABadRequest ==
    (ChatCall /\ ~event.Body.json)
        => /\ pc \in {"handleRequest", "done"}
           /\ openAIReq = noOpenAIReq
           /\ calls = <<>>
           /\ pc = "done"
                => /\ resp.StatusCode = statusCodeBadRequest
                   /\ resp.Body = Errorf("Error parsing request JSON: ",
                                         parseRequestBody(event.Body).err)

\* such a call was answered
C26_Witness ==
    /\ ChatCall
    /\ ~event.Body.json
    /\ pc = "done"
    /\ resp.StatusCode = statusCodeBadRequest

\* C28: in stream mode no push of a fragment carries the bytes of the
\* sentinel "<END>", and a call that succeeded made exactly one push of those
\* bytes, its last one.
C28_SentinelIsUnambiguous ==
    mode = "stream"
        => /\ \A i \in 2..Len(IO) :
                 (/\ IO[i].op = "PostToConnection"
                  /\ IO[i - 1].op = "Recv"
                  /\ IO[i - 1].err = "")
                     => IO[i].arg.Data # endStreamMessage
           /\ (pc = "done" /\ resp.StatusCode = statusCodeOK)
                 => /\ Len(Pushes) >= 1
                    /\ Pushes[Len(Pushes)].arg.Data = endStreamMessage
                    /\ \A k \in 1..(Len(Pushes) - 1) :
                          Pushes[k].arg.Data # endStreamMessage

\* the texts s holds between a "[[" and a "]]" after it, whatever they are
Bracketed(s) ==
    {SubSeq(s, ij[1] + 2, ij[2] - 1) :
        ij \in {ij \in {i \in 1..Len(s) : OpenAt(s, i)}
                          \X {j \in 1..Len(s) : CloseAt(s, j)} :
                    ij[2] >= ij[1] + 2}}

\* c is empty, starts with white space, or holds a character that is
\* neither a word character nor white space
NotWords(c) ==
    \/ c = <<>>
    \/ IsSpace(c[1])
    \/ \E k \in 1..Len(c) : ~IsWordOrSpace(c[k])

\* C25: in string mode the value pushed is the whole text c of the leftmost
\* occurrence [[c]] whose c is words each followed by white space or by
\* nothing, the white space inside it and at its end included; a bracketed
\* text that is empty, starts with white space or holds another character
\* is not matched, and when the answer holds no other, nothing is pushed.
C25_WordsReturnedUntrimmed ==
    (Extracted /\ mode = "string")
        => LET words == {c \in Bracketed(Reply) : ~NotWords(c)}
           IN  IF words = {}
               THEN Pushes = <<>>
               ELSE /\ Len(Pushes) = 1
                    /\ Pushes[1].arg.Data \in words
                    /\ Pushes[1].arg.Data = LeftmostOccurrence("string", Reply)

\* "a " was pushed, with the white space that ends it
C25_Witness ==
    /\ Extracted
    /\ mode = "string"
    /\ Len(Pushes) = 1
    /\ Pushes[1].err = ""
    /\ Pushes[1].arg.Data = <<97, 32>>

\* ------------------------------------------------ invocations side by side
\* Two invocations of Handler run interleaved, each on its own invocation
\* context: env and config are the process's, everything else is arguments,
\* locals and results of the invocation.  Both are stream calls inside the
\* receive loop, with at most MaxInterleavedChunks chunks still to come.
CallIds == {"A", "B"}
CallConnectionIds == {"c1", "c2"}
MaxInterleavedChunks == 1

\* what the running invocation holds of its own
Locals ==
    [pc |-> pc, event |-> event, openAIReq |-> openAIReq, model |-> model,
     response |-> response, err |-> err, stream |-> stream,
     received |-> received, postData |-> postData, calls |-> calls,
     resp |-> resp]

\* the invocation that is running
running == CHOOSE c \in CallIds : c \notin DOMAIN suspended

\* what invocation c holds of its own
LocalsOf(c) == IF c \in DOMAIN suspended THEN suspended[c] ELSE Locals

\* variant: postInput.Data kept in one place for all invocations
SwitchSharedPostInput ==
    \E c \in DOMAIN suspended :
        /\ suspended' = [d \in (DOMAIN suspended \ {c}) \cup {running} |->
                             IF d = running THEN Locals ELSE suspended[d]]
        /\ pc' = suspended[c].pc
        /\ event' = suspended[c].event
        /\ openAIReq' = suspended[c].openAIReq
        /\ model' = suspended[c].model
        /\ response' = suspended[c].response
        /\ err' = suspended[c].err
        /\ stream' = suspended[c].stream
        /\ received' = suspended[c].received
        /\ calls' = suspended[c].calls
        /\ resp' = suspended[c].resp
        /\ UNCHANGED <<env, config, postData>>

\* the scheduler lets another invocation run
Switch ==
    \E c \in DOMAIN suspended :
        /\ suspended' = [d \in (DOMAIN suspended \ {c}) \cup {running} |->
                             IF d = running THEN Locals ELSE suspended[d]]
        /\ pc' = suspended[c].pc
        /\ event' = suspended[c].event
        /\ openAIReq' = suspended[c].openAIReq
        /\ model' = suspended[c].model
        /\ response' = suspended[c].response
        /\ err' = suspended[c].err
        /\ stream' = suspended[c].stream
        /\ received' = suspended[c].received
        /\ postData' = suspended[c].postData
        /\ calls' = suspended[c].calls
        /\ resp' = suspended[c].resp
        /\ UNCHANGED <<env, config>>

\* the chunk "He", and the calls of n turns of the loop that relayed it
relayedChunk == [Choices |-> <<<<72, 101>>>>]
RECURSIVE Relays(_, _)
Relays(connectionId, n) ==
    IF n = 0 THEN <<>>
    ELSE Relays(connectionId, n - 1)
            \o <<Call("Recv", relayedChunk, ""),
                 PostToConnection(connectionId, deltaData(relayedChunk), "")>>

\* a stream call on connection connectionId that has relayed all but
\* MaxInterleavedChunks of the chunks its stream can deliver
StreamingLocals(connectionId) ==
    LET req == CHOOSE r \in StreamRequests : TRUE
        n == MaxChunks - MaxInterleavedChunks
        request == [Model |-> defaultModel,
                    Messages |-> chatCompletionMessages(Getenv(req.PromptTemplate),
                                                        req.Messages)]
    IN  [pc |-> "Recv",
         event |-> [RouteKey |-> "$default", Body |-> [json |-> TRUE, req |-> req],
                    ConnectionID |-> connectionId],
         openAIReq |-> createOpenAIRequest(req, connectionId),
         model |-> defaultModel,
         response |-> zeroResponse,
         err |-> nil,
         stream |-> "open",
         received |-> n,
         postData |-> IF n = 0 THEN <<>> ELSE deltaData(relayedChunk),
         calls |-> <<Call("ListModels", <<>>, CHOOSE e \in ListErrors : TRUE),
                     Call("CreateChatCompletionStream", request, "")>>
                       \o Relays(connectionId, n),
         resp |-> noResponse]

InitInterleaved ==
    /\ env \in Environments
    /\ loadConfig.err = nil
    /\ config = loadConfig.cfg
    /\ \E a, b \in CallConnectionIds :
          /\ pc = StreamingLocals(a).pc
          /\ event = StreamingLocals(a).event
          /\ openAIReq = StreamingLocals(a).openAIReq
          /\ model = StreamingLocals(a).model
          /\ response = StreamingLocals(a).response
          /\ err = StreamingLocals(a).err
          /\ stream = StreamingLocals(a).stream
          /\ received = StreamingLocals(a).received
          /\ postData = StreamingLocals(a).postData
          /\ calls = StreamingLocals(a).calls
          /\ resp = StreamingLocals(a).resp
          /\ suspended = [c \in {"B"} |-> StreamingLocals(b)]

NextInterleaved ==
    \/ Switch
    \/ Recv
    \/ PostEndStream
    \/ PostDelta

SpecInterleaved == InitInterleaved /\ [][NextInterleaved]_vars

\* every push of the call that holds L went to the call's own connection
OwnConnection(L) ==
    \A i \in 1..Len(L.calls) :
        L.calls[i].op = "PostToConnection"
            => L.calls[i].arg.ConnectionId = L.event.ConnectionID

\* every push of the call that holds L carries what the call itself received
\* just before it: its own fragment substituted, or the sentinel for the end
OwnRelay(L) ==
    LET io == SelectSeq(L.calls, LAMBDA c : c.op \in {"Recv", "PostToConnection"})
    IN  \A i \in 1..Len(io) :
            io[i].op = "PostToConnection"
                => /\ i >= 2
                   /\ io[i - 1].op = "Recv"
                   /\ \/ io[i - 1].err = "EOF" /\ io[i].arg.Data = endStreamMessage
                      \/ /\ io[i - 1].err = ""
                         /\ Len(io[i - 1].arg.Choices) > 0
                         /\ IsSubst(io[i - 1].arg.Choices[1], io[i].arg.Data)

\* C24: with two calls interleaved in any order, every push of a call goes
\* to the call's own connection and carries, in the call's own order, what
\* that call received; two calls with the same request that made the same
\* calls with the same outcomes end the same way; and a step changes what
\* the stepping call holds and nothing of what any other call holds.
C24_CallsDoNotInterfere ==
    /\ [](\A c \in CallIds : OwnConnection(LocalsOf(c)) /\ OwnRelay(LocalsOf(c)))
    /\ [](\A c, d \in CallIds :
            (/\ LocalsOf(c).event = LocalsOf(d).event
             /\ LocalsOf(c).calls = LocalsOf(d).calls
             /\ LocalsOf(c).pc \in {"done", "panic"}
             /\ LocalsOf(d).pc \in {"done", "panic"})
                => /\ LocalsOf(c).pc = LocalsOf(d).pc
                   /\ LocalsOf(c).resp = LocalsOf(d).resp)
    /\ [][\A c \in CallIds : c # running => (LocalsOf(c))' = LocalsOf(c)]_vars
    /\ [][\A c \in CallIds :
            (c = running /\ c \in DOMAIN suspended') => suspended'[c] = Locals]_vars

\* both calls are between a receive and its push, on different connections
\* and with different fragments ready
C24_Witness ==
    /\ DOMAIN suspended # {}
    /\ pc = "PostDelta"
    /\ \A c \in DOMAIN suspended :
          /\ suspended[c].pc = "PostDelta"
          /\ suspended[c].postData # postData
          /\ suspended[c].event.ConnectionID # event.ConnectionID
          /\ Len(suspended[c].calls) > 2
====
